---------------------------- MODULE Spec2Model ----------------------------
(***************************************************************************)
(* A model of TruckScout24Scraper (src/scraper.py).                        *)
(*                                                                         *)
(* Texts are sequences of one-character strings, so that trimming, the     *)
(* regular-expression search and Python's int() are computed and not       *)
(* assumed.  An absent DOM node (BeautifulSoup's None) is the record None. *)
(* A call either returns a value, Return(v), or raises, Raise(e).          *)
(*                                                                         *)
(* Spec        : process(), one step per statement, against a website      *)
(*               that answers every GET nondeterministically.              *)
(* SpecConv    : __convert_str_to_int applied to bounded texts.            *)
(* SpecLookup  : __get_div_param applied to bounded element lists.         *)
(* SpecExtract : __get_page_config applied to detail pages with every      *)
(*               subset of their DOM nodes absent.                         *)
(* SpecDl      : __download_images applied to bounded galleries and caps.  *)
(***************************************************************************)
EXTENDS Integers, Sequences, FiniteSets, TLC

VARIABLES
    pc,            \* position in process() / in the function under check
    page_no,       \* self.__page_no
    ads,           \* self.__data["ads"]
    catalog_page,  \* process(): catalog_page
    first_ad_url,  \* process(): first_ad_url
    page,          \* process(): page
    image_num,     \* __download_images: image_num (parameter, then clamped)
    images,        \* __download_images: images
    i,             \* __download_images: loop index of "for i in range(...)"
    dirs,          \* directories created under path_to_dir
    files,         \* image files saved under path_to_dir
    data_json,     \* the contents written to data.json, one entry per write
    requests,      \* history: every network request issued, in order
    downloaded,    \* history: the listings whose __download_images call returned
    last_fetch,    \* history: the last __parse_page call, response and outcome
    arg,           \* argument of the function under check (pure-function specs)
    ret            \* its outcome

vars == <<pc, page_no, ads, catalog_page, first_ad_url, page, image_num, images,
          i, dirs, files, data_json, requests, downloaded, last_fetch, arg, ret>>

----------------------------------------------------------------------------
(* Bounds *)

\* longest enumerated input text of __convert_str_to_int
MaxTextLen == 4

\* longest enumerated candidate list of __get_div_param
MaxTags == 2

\* number of catalog pages of the website that show a listing link
MaxPages == 2

\* largest gallery of a detail page
MaxGallery == 4

\* largest image cap __download_images is called with on its own
MaxCap == 4

----------------------------------------------------------------------------
(* Values *)

None == [tag |-> "None"]
Tag(text) == [tag |-> "Tag", text |-> text]

Return(v) == [raised |-> FALSE, value |-> v]
Raise(e) == [raised |-> TRUE, exc |-> e]

Min(S) == CHOOSE x \in S : \A y \in S : x <= y

----------------------------------------------------------------------------
(* Text primitives of the Python runtime *)

Digits == {"0", "1", "2", "3", "4", "5", "6", "7", "8", "9"}
\* the whitespace of the texts enumerated here (str.strip() knows more)
Whitespace == {" ", "\t", "\n"}

DigitVal(c) ==
    CASE c = "0" -> 0 [] c = "1" -> 1 [] c = "2" -> 2 [] c = "3" -> 3
      [] c = "4" -> 4 [] c = "5" -> 5 [] c = "6" -> 6 [] c = "7" -> 7
      [] c = "8" -> 8 [] c = "9" -> 9

IsDigit(c) == c \in Digits

RECURSIVE lstrip(_)
lstrip(s) == IF s # <<>> /\ Head(s) \in Whitespace THEN lstrip(Tail(s)) ELSE s

RECURSIVE rstrip(_)
rstrip(s) ==
    IF s # <<>> /\ s[Len(s)] \in Whitespace
    THEN rstrip(SubSeq(s, 1, Len(s) - 1))
    ELSE s

\* str.strip()
strip(s) == rstrip(lstrip(s))

\* str.replace(old, new) for one-character old and new
replace(s, old, new) == [k \in 1..Len(s) |-> IF s[k] = old THEN new ELSE s[k]]

\* value of a sequence of decimal digits (0 for the empty one)
RECURSIVE DecVal(_)
DecVal(ds) ==
    IF ds = <<>> THEN 0
    ELSE 10 * DecVal(SubSeq(ds, 1, Len(ds) - 1)) + DigitVal(ds[Len(ds)])

\* int(s): surrounding whitespace is dropped, one sign is allowed, and the
\* digits may be grouped by single underscores; anything else is ValueError
py_int(s) ==
    LET t == strip(s)
        signed == t # <<>> /\ t[1] \in {"+", "-"}
        body == IF signed THEN Tail(t) ELSE t
        valid == /\ body # <<>>
                 /\ \A k \in 1..Len(body) : body[k] \in Digits \cup {"_"}
                 /\ body[1] # "_"
                 /\ body[Len(body)] # "_"
                 /\ \A k \in 1..(Len(body) - 1) :
                        ~(body[k] = "_" /\ body[k + 1] = "_")
        mag == DecVal(SelectSeq(body, IsDigit))
    IN  IF valid
        THEN Return(IF signed /\ t[1] = "-" THEN 0 - mag ELSE mag)
        ELSE Raise("ValueError")

\* last index of the run of digits of text that starts at k (k - 1: no digit)
RunEnd(text, k) ==
    CHOOSE j \in (k - 1)..Len(text) :
        /\ \A m \in k..j : IsDigit(text[m])
        /\ j = Len(text) \/ ~IsDigit(text[j + 1])

\* re.search(r"\d+.{0,1}\d*", text): the leftmost match, each part greedy;
\* "." matches any character but a newline
re_search(text) ==
    IF \E k \in 1..Len(text) : IsDigit(text[k])
    THEN LET s == Min({k \in 1..Len(text) : IsDigit(text[k])})
             e1 == RunEnd(text, s)
             e2 == IF e1 < Len(text) /\ text[e1 + 1] # "\n" THEN e1 + 1 ELSE e1
             e3 == RunEnd(text, e2 + 1)
         IN  Tag(SubSeq(text, s, e3))
    ELSE None

----------------------------------------------------------------------------
(* TruckScout24Scraper: pure helpers *)

\* __get_tag_data
get_tag_data(tag) == IF tag # None THEN strip(tag.text) ELSE <<>>

\* the labels __get_page_config looks up
Kilometer == <<"K", "i", "l", "o", "m", "e", "t", "e", "r">>
Farbe == <<"F", "a", "r", "b", "e">>
Leistung == <<"L", "e", "i", "s", "t", "u", "n", "g">>

\* tag.find("div", {"class": cls}) on an element whose divs are
\* tag.children, in document order: the first one of that class, or None.
\* The div that {"class": ""} selects (one without a class) has class "".
find(tag, cls) ==
    IF \E k \in 1..Len(tag.children) : tag.children[k].class = cls
    THEN Tag(tag.children[
             Min({k \in 1..Len(tag.children) : tag.children[k].class = cls})].text)
    ELSE None

\* mutant of __get_div_param: a later match overrides an earlier one
RECURSIVE get_div_param_LastMatch(_, _, _, _)
get_div_param_LastMatch(tags, param_name, param_class, value_class) ==
    IF tags = <<>> THEN <<>>
    ELSE IF get_tag_data(find(tags[Len(tags)], param_class)) = param_name
         THEN get_tag_data(find(tags[Len(tags)], value_class))
         ELSE get_div_param_LastMatch(SubSeq(tags, 1, Len(tags) - 1), param_name,
                                      param_class, value_class)

\* __get_div_param
RECURSIVE get_div_param(_, _, _, _)
get_div_param(tags, param_name, param_class, value_class) ==
    IF tags = <<>> THEN <<>>
    ELSE IF get_tag_data(find(Head(tags), param_class)) = param_name
         THEN get_tag_data(find(Head(tags), value_class))
         ELSE get_div_param(Tail(tags), param_name, param_class, value_class)

\* __convert_str_to_int
convert_str_to_int(text) ==
    LET num_str == re_search(text)
    IN  IF num_str # None
        THEN py_int(replace(num_str.text, ".", "_"))
        ELSE Return(0)

\* str.splitlines() for texts whose only line break is "\n"
RECURSIVE splitlines(_)
splitlines(s) ==
    IF s = <<>> THEN <<>>
    ELSE IF \A k \in 1..Len(s) : s[k] # "\n" THEN <<s>>
    ELSE LET k == Min({m \in 1..Len(s) : s[m] = "\n"})
         IN  <<SubSeq(s, 1, k - 1)>> \o splitlines(SubSeq(s, k + 1, Len(s)))

\* sep.join(parts)
RECURSIVE join(_, _)
join(sep, parts) ==
    IF parts = <<>> THEN <<>>
    ELSE IF Len(parts) = 1 THEN parts[1]
    ELSE parts[1] \o sep \o join(sep, Tail(parts))

\* map(lambda s: s.strip(), lines)
StripAll(lines) == [k \in 1..Len(lines) |-> strip(lines[k])]

\* __get_description
get_description(description_tag) ==
    IF description_tag # None
    THEN LET title_tag == description_tag.label
             title == IF title_tag # None
                      THEN strip(title_tag.text) \o <<"\n", "\n">>
                      ELSE <<>>
             body_tag == description_tag.body
             body == IF body_tag # None
                     THEN join(<<"\n">>, StripAll(splitlines(body_tag.text)))
                     ELSE <<>>
         IN  title \o body
    ELSE <<>>

\* __get_page_config.  A detail page is a record of what each fixed selector
\* finds: title (h1), price (h2), basic (div.data-basic), spec (the
\* specification box), desc (the description box), each a node or None.
\* page = None (a fetch that was not answered 200) has no find(); an absent
\* basic or spec block has no find_all().  id is what line 76 reads.
page_config(pg, page_url, id) ==
    IF pg = None THEN Raise("AttributeError")
    ELSE IF pg.basic = None THEN Raise("AttributeError")
    ELSE IF pg.spec = None THEN Raise("AttributeError")
    ELSE
       LET title_tag == pg.title
           price_tag == pg.price
           basic_data_tags == pg.basic.items
           specification_tags == pg.spec.items
           description_tag == pg.desc
           price == convert_str_to_int(get_tag_data(price_tag))
           mileage == convert_str_to_int(
                          get_div_param(basic_data_tags, Kilometer, "itemlbl", "itemval"))
           power == convert_str_to_int(
                        get_div_param(specification_tags, Leistung, "sc-font-bold", ""))
       IN  IF price.raised THEN price
           ELSE IF mileage.raised THEN mileage
           ELSE IF power.raised THEN power
           ELSE Return([ id |-> id,
                         href |-> page_url,
                         title |-> get_tag_data(title_tag),
                         price |-> price.value,
                         mileage |-> mileage.value,
                         color |-> get_div_param(specification_tags, Farbe,
                                                 "sc-font-bold", ""),
                         power |-> power.value,
                         description |-> get_description(description_tag) ])

\* mutant of line 76: the id counts from 0
get_page_config_ZeroBasedId(pg, page_url) == page_config(pg, page_url, page_no - 1)

\* __get_page_config: config["id"] = self.__page_no
get_page_config(pg, page_url) == page_config(pg, page_url, page_no)

\* mutant of __parse_page: the status code is not looked at
parse_page_IgnoresStatus(response) ==
    IF response.tag = "Exception" THEN Raise("RequestException")
    ELSE Return(response.body)

\* __parse_page.  requests.get either answers with a response or raises
\* (timeout, connection error); nothing here catches what it raises.
parse_page(response) ==
    IF response.tag = "Exception" THEN Raise("RequestException")
    ELSE IF response.status_code = 200 THEN Return(response.body)
    ELSE Return(None)

\* image_url.split(".")[-1]
LastSegment(s) ==
    IF \E k \in 1..Len(s) : s[k] = "."
    THEN LET k == CHOOSE m \in 1..Len(s) :
                      s[m] = "." /\ \A n \in (m + 1)..Len(s) : s[n] # "."
         IN  SubSeq(s, k + 1, Len(s))
    ELSE s

----------------------------------------------------------------------------
(* State after construction, shared by every specification *)

NoArg == [tag |-> "NoArg"]
NoRet == [tag |-> "NoRet"]

InitFields ==
    /\ page_no = 1
    /\ ads = <<>>
    /\ catalog_page = None
    /\ first_ad_url = <<>>
    /\ page = None
    /\ image_num = 0
    /\ images = <<>>
    /\ i = 0
    /\ dirs = {}
    /\ files = {}
    /\ data_json = <<>>
    /\ requests = <<>>
    /\ downloaded = {}
    /\ last_fetch = None

ProcessVars == <<page_no, ads, catalog_page, first_ad_url, page, image_num,
                 images, i, dirs, files, data_json, requests, downloaded,
                 last_fetch>>

----------------------------------------------------------------------------
(* SpecConv: __convert_str_to_int on bounded texts *)

ConvAlphabet == {"0", "1", "2", ".", ",", " ", "k", "_", "\n"}

RECURSIVE TextsUpTo(_, _)
TextsUpTo(alphabet, n) ==
    IF n = 0 THEN {<<>>}
    ELSE LET shorter == TextsUpTo(alphabet, n - 1)
         IN  shorter \cup {Append(t, c) : t \in shorter, c \in alphabet}

\* the texts of the documentation: "12.345 km", "€ 8.900", "120 kW", "12km"
SampleTexts ==
    { <<"1", "2", ".", "3", "4", "5", " ", "k", "m">>,
      <<"€", " ", "8", ".", "9", "0", "0">>,
      <<"1", "2", "0", " ", "k", "W">>,
      <<"1", "2", "k", "m">> }

ConvInputs == TextsUpTo(ConvAlphabet, MaxTextLen) \cup SampleTexts

InitConv ==
    /\ InitFields
    /\ pc = "call"
    /\ arg \in ConvInputs
    /\ ret = NoRet

CallConvert ==
    /\ pc = "call"
    /\ ret' = convert_str_to_int(arg)
    /\ pc' = "returned"
    /\ UNCHANGED <<arg, ProcessVars>>

NextConv == CallConvert

SpecConv == InitConv /\ [][NextConv]_vars

\* The normalization as documented: the first digit run, optionally followed
\* by one "." and more digits, with the "." removed, read as a decimal number;
\* 0 when the text holds no digit.
DocumentedValue(text) ==
    IF \E k \in 1..Len(text) : IsDigit(text[k])
    THEN LET s == Min({k \in 1..Len(text) : IsDigit(text[k])})
             e1 == RunEnd(text, s)
             grouped == /\ e1 + 2 <= Len(text)
                        /\ text[e1 + 1] = "."
                        /\ IsDigit(text[e1 + 2])
             e3 == IF grouped THEN RunEnd(text, e1 + 2) ELSE e1
         IN  DecVal(SelectSeq(SubSeq(text, s, e3), IsDigit))
    ELSE 0

\* C4: for every input text, numeric normalization returns an integer, the
\* documented value of the text; it never raises.
C4_NormalizationTotal ==
    pc = "returned" => ret = Return(DocumentedValue(arg))

----------------------------------------------------------------------------
(* SpecLookup: __get_div_param on bounded lists of elements *)

Div(class, text) == [class |-> class, text |-> text]
Element(children) == [children |-> children]

\* label texts: exact, padded, another label, and one that only starts alike
LabelTexts ==
    { Kilometer, <<" ">> \o Kilometer \o <<"\n">>, Farbe, Kilometer \o <<"s">> }
ValueTexts == { <<"7", " ", "k", "m">>, <<" ", "9", " ">>, <<>> }

LookupDivs ==
    {Div("itemlbl", t) : t \in LabelTexts} \cup {Div("itemval", t) : t \in ValueTexts}

\* elements with no, one or two div children, in any order
LookupElements ==
    {Element(<<>>)} \cup {Element(<<c>>) : c \in LookupDivs}
        \cup {Element(<<c, d>>) : c \in LookupDivs, d \in LookupDivs}

RECURSIVE SeqsUpTo(_, _)
SeqsUpTo(S, n) ==
    IF n = 0 THEN {<<>>}
    ELSE LET shorter == SeqsUpTo(S, n - 1)
         IN  shorter \cup {Append(q, x) : q \in shorter, x \in S}

LookupInputs ==
    [ tags : SeqsUpTo(LookupElements, MaxTags),
      param_name : {Kilometer, Farbe, <<>>},
      param_class : {"itemlbl"},
      value_class : {"itemval"} ]

InitLookup ==
    /\ InitFields
    /\ pc = "call"
    /\ arg \in LookupInputs
    /\ ret = NoRet

CallLookup ==
    /\ pc = "call"
    /\ ret' = Return(get_div_param(arg.tags, arg.param_name,
                                   arg.param_class, arg.value_class))
    /\ pc' = "returned"
    /\ UNCHANGED <<arg, ProcessVars>>

NextLookup == CallLookup

SpecLookup == InitLookup /\ [][NextLookup]_vars

\* the trimmed text of the first child of element e that has class cls, the
\* empty text when e has no such child
ChildText(e, cls) ==
    IF \E k \in 1..Len(e.children) :
           /\ e.children[k].class = cls
           /\ \A m \in 1..(k - 1) : e.children[m].class # cls
    THEN LET k == CHOOSE k \in 1..Len(e.children) :
                      /\ e.children[k].class = cls
                      /\ \A m \in 1..(k - 1) : e.children[m].class # cls
         IN  strip(e.children[k].text)
    ELSE <<>>

\* the positions of the elements whose trimmed label equals the target
Matches(a) ==
    {k \in 1..Len(a.tags) : ChildText(a.tags[k], a.param_class) = a.param_name}

\* C5: the lookup returns the trimmed value of the first element, in document
\* order, whose trimmed label equals the target (the empty text when that
\* element has no value node), and the empty text when no label matches.
C5_FirstMatchWins ==
    pc = "returned" =>
        /\ ret.raised = FALSE
        /\ Matches(arg) = {} => ret.value = <<>>
        /\ Matches(arg) # {} =>
               ret.value = ChildText(arg.tags[Min(Matches(arg))], arg.value_class)

\* C5 witness: the target label occurs twice, padded the first time, with
\* different values, and the lookup has returned the first one.
C5_Witness ==
    /\ pc = "returned"
    /\ Cardinality(Matches(arg)) >= 2
    /\ arg.param_name = Kilometer
    /\ find(arg.tags[Min(Matches(arg))], arg.param_class).text # Kilometer
    /\ \E k \in Matches(arg) :
           ChildText(arg.tags[k], arg.value_class)
               # ChildText(arg.tags[Min(Matches(arg))], arg.value_class)
    /\ ret.value # <<>>

----------------------------------------------------------------------------
(* SpecExtract: __get_page_config on detail pages with absent nodes *)

Block(items) == [tag |-> "Block", items |-> items]
Box(label, body) == [tag |-> "Box", label |-> label, body |-> body]
Page(title, price, basic, spec, desc, gallery) ==
    [ tag |-> "Page", title |-> title, price |-> price, basic |-> basic,
      spec |-> spec, desc |-> desc, gallery |-> gallery ]

\* the nodes of the documented example page
TitleNode == Tag(<<"R", "e", "n", "a", "u", "l", "t">>)
PriceNode == Tag(<<"1", "2", ".", "5", "0", "0", " ", "€">>)
KmLabel == Div("itemlbl", Kilometer)
KmValue == Div("itemval", <<"1", "5", "0", ".", "0", "0", "0", " ", "k", "m">>)
FarbeLabel == Div("sc-font-bold", Farbe)
FarbeValue == Div("", <<"W", "e", "i", "s", "s">>)
LeistungLabel == Div("sc-font-bold", Leistung)
LeistungValue == Div("", <<"1", "2", "0", " ", "k", "W">>)
DescLabel == Tag(<<" ", "G", "e", "p", "f", "l", "e", "g", "t">>)
DescBody == Tag(<<" ", "a", " ", "\n", "b", "\t">>)

\* a label/value entry: whole, without its value node, or without its label
Entries(label, value) ==
    { Element(<<label, value>>), Element(<<label>>), Element(<<value>>) }

\* the item lists of a block: each entry of it present (in some form) or absent
BasicItemLists ==
    {<<>>} \cup {<<e>> : e \in Entries(KmLabel, KmValue)}
        \cup {<<Element(<<Div("itemlbl", Farbe), KmValue>>), e>> :
                  e \in Entries(KmLabel, KmValue)}

SpecItemLists ==
    LET farbe == {<<>>} \cup {<<e>> : e \in Entries(FarbeLabel, FarbeValue)}
        leistung == {<<>>} \cup {<<e>> : e \in Entries(LeistungLabel, LeistungValue)}
    IN  {f \o l : f \in farbe, l \in leistung}

DescBoxes ==
    {None} \cup {Box(l, b) : l \in {None, DescLabel}, b \in {None, DescBody}}

ExtractPages ==
    { Page(t, p, b, sp, d, <<>>) :
        t \in {None, TitleNode},
        p \in {None, PriceNode},
        b \in {None} \cup {Block(il) : il \in BasicItemLists},
        sp \in {None} \cup {Block(il) : il \in SpecItemLists},
        d \in DescBoxes }

DetailUrl == <<"/", "a", "d">>

InitExtract ==
    /\ InitFields
    /\ pc = "call"
    /\ arg \in [page : ExtractPages, page_url : {DetailUrl}]
    /\ ret = NoRet

CallExtract ==
    /\ pc = "call"
    /\ ret' = get_page_config(arg.page, arg.page_url)
    /\ pc' = "returned"
    /\ UNCHANGED <<arg, ProcessVars>>

NextExtract == CallExtract

SpecExtract == InitExtract /\ [][NextExtract]_vars

\* whether a block holds an entry with this label and a value node
HasValue(block, label, lblclass, valclass) ==
    /\ block # None
    /\ \E k \in 1..Len(block.items) :
           /\ ChildText(block.items[k], lblclass) = label
           /\ \E m \in 1..Len(block.items[k].children) :
                  block.items[k].children[m].class = valclass

\* C3: whatever nodes a fetched detail page lacks, extraction returns a record
\* (it never raises) and every field whose node is absent has its default:
\* the empty text for title, color, description, 0 for price, mileage, power.
C3_DefaultsNeverFault ==
    pc = "returned" =>
        /\ ret.raised = FALSE
        /\ arg.page.title = None => ret.value.title = <<>>
        /\ arg.page.price = None => ret.value.price = 0
        /\ ~HasValue(arg.page.basic, Kilometer, "itemlbl", "itemval")
               => ret.value.mileage = 0
        /\ ~HasValue(arg.page.spec, Farbe, "sc-font-bold", "")
               => ret.value.color = <<>>
        /\ ~HasValue(arg.page.spec, Leistung, "sc-font-bold", "")
               => ret.value.power = 0
        /\ arg.page.desc = None => ret.value.description = <<>>

----------------------------------------------------------------------------
(* The website: what a GET may answer *)

WEBSITE_URL == <<"https://www.truckscout24.de">>
WEBSITE_CATALOG_URL ==
    WEBSITE_URL \o <<"/transporter/gebraucht/kuehl-iso-frischdienst/renault">>

\* image_num=3, the default of __download_images
DefaultImageNum == 3

Response(status_code, body) ==
    [tag |-> "Response", status_code |-> status_code, body |-> body]
Exception == [tag |-> "Exception"]

Catalog(link) == [tag |-> "Catalog", link |-> link]
Anchor(href) == [tag |-> "A", href |-> href]
Img(data_src) == [tag |-> "Img", data_src |-> data_src]

\* hrefs of listing links: one padded with whitespace, one plain
Hrefs == { <<" ", "/", "a", "d", "\n">>, <<"/", "b">> }

ImageNames == <<"a", "b", "c", "d", "e", "f", "g", "h">>
ImageUrl(k) == <<"/", ImageNames[k], ".", IF k % 2 = 1 THEN "jpg" ELSE "png">>

\* galleries of up to MaxGallery images, any of them without a data-src
Galleries ==
    UNION { { [k \in 1..n |-> Img(IF k \in missing THEN None ELSE Tag(ImageUrl(k)))]
              : missing \in SUBSET (1..n) }
            : n \in 0..MaxGallery }

\* the documented example page, and the same page without its basic-data block
FullPage(gallery) ==
    Page(TitleNode, PriceNode, Block(<<Element(<<KmLabel, KmValue>>)>>),
         Block(<<Element(<<FarbeLabel, FarbeValue>>),
                 Element(<<LeistungLabel, LeistungValue>>)>>),
         Box(DescLabel, DescBody), gallery)
\* a page with none of the optional nodes, its two blocks empty
BarePage(gallery) ==
    Page(None, None, Block(<<>>), Block(<<>>), None, gallery)
NoBasicPage(gallery) ==
    Page(TitleNode, PriceNode, None, Block(<<>>), None, gallery)
\* a page whose price reads "12km"
UnitPricePage(gallery) ==
    Page(TitleNode, Tag(<<"1", "2", "k", "m">>), Block(<<>>), Block(<<>>), None,
         gallery)

DetailPages ==
    {FullPage(g) : g \in Galleries} \cup {BarePage(g) : g \in Galleries}
        \cup {NoBasicPage(<<>>), UnitPricePage(<<>>)}

\* the catalog has MaxPages pages that show a listing link; any page, also a
\* later one, may come back without one
CatalogDocs(n) ==
    {Catalog(None)} \cup
    (IF n <= MaxPages
     THEN {Catalog(Anchor(h)) : h \in {None} \cup {Tag(t) : t \in Hrefs}}
     ELSE {})

CatalogResponses(n) ==
    {Response(200, d) : d \in CatalogDocs(n)}
        \cup {Response(404, Catalog(None)), Exception}

DetailResponses ==
    {Response(200, d) : d \in DetailPages}
        \cup {Response(404, NoBasicPage(<<>>)), Exception}

\* how a request ended, for the history
Outcome(response) ==
    IF response.tag = "Exception" THEN "exception"
    ELSE IF response.status_code # 200 THEN "non200"
    ELSE IF response.body.tag = "Catalog" /\ response.body.link = None THEN "nolink"
    ELSE "200"

----------------------------------------------------------------------------
(* process(), one action per statement *)

Init ==
    /\ InitFields
    /\ pc = "fetch_catalog"
    /\ arg = NoArg
    /\ ret = NoRet

\* line 110: catalog_page = self.__parse_page(CATALOG_URL + "?currentpage=N")
FetchCatalog ==
    /\ pc = "fetch_catalog"
    /\ \E response \in CatalogResponses(page_no) :
         LET r == parse_page(response)
         IN  /\ requests' = Append(requests,
                     [ kind |-> "catalog", url |-> WEBSITE_CATALOG_URL,
                       currentpage |-> page_no, outcome |-> Outcome(response) ])
             /\ last_fetch' = [response |-> response, result |-> r]
             /\ IF r.raised
                THEN pc' = "fault" /\ UNCHANGED catalog_page
                ELSE pc' = "find_link" /\ catalog_page' = r.value
    /\ UNCHANGED <<page_no, ads, first_ad_url, page, image_num, images, i, dirs,
                   files, data_json, downloaded, arg, ret>>

\* mutant of lines 111-119: without a link the run ends at once, unsaved
FindLink_SkipsSave ==
    /\ pc = "find_link"
    /\ IF catalog_page = None
       THEN pc' = "fault" /\ UNCHANGED first_ad_url
       ELSE IF catalog_page.link # None
       THEN IF catalog_page.link.href = None
            THEN pc' = "fault" /\ UNCHANGED first_ad_url
            ELSE /\ first_ad_url' = WEBSITE_URL \o strip(catalog_page.link.href.text)
                 /\ pc' = "fetch_detail"
       ELSE pc' = "done" /\ UNCHANGED first_ad_url
    /\ UNCHANGED <<page_no, ads, catalog_page, page, image_num, images, i, dirs,
                   files, data_json, requests, downloaded, last_fetch, arg, ret>>

\* lines 111-113, 118-119: find the first listing link; leave the loop
\* without one.  None has no find(); a link without href has no strip().
FindLink ==
    /\ pc = "find_link"
    /\ IF catalog_page = None
       THEN pc' = "fault" /\ UNCHANGED first_ad_url
       ELSE IF catalog_page.link # None
       THEN IF catalog_page.link.href = None
            THEN pc' = "fault" /\ UNCHANGED first_ad_url
            ELSE /\ first_ad_url' = WEBSITE_URL \o strip(catalog_page.link.href.text)
                 /\ pc' = "fetch_detail"
       ELSE pc' = "save" /\ UNCHANGED first_ad_url
    /\ UNCHANGED <<page_no, ads, catalog_page, page, image_num, images, i, dirs,
                   files, data_json, requests, downloaded, last_fetch, arg, ret>>

\* line 114: page = self.__parse_page(first_ad_url)
FetchDetail ==
    /\ pc = "fetch_detail"
    /\ \E response \in DetailResponses :
         LET r == parse_page(response)
         IN  /\ requests' = Append(requests,
                     [ kind |-> "detail", url |-> first_ad_url,
                       currentpage |-> page_no, outcome |-> Outcome(response) ])
             /\ last_fetch' = [response |-> response, result |-> r]
             /\ IF r.raised
                THEN pc' = "fault" /\ UNCHANGED page
                ELSE pc' = "append" /\ page' = r.value
    /\ UNCHANGED <<page_no, ads, catalog_page, first_ad_url, image_num, images, i,
                   dirs, files, data_json, downloaded, arg, ret>>

\* mutant of line 115: the result is checkpointed after every record
AppendConfig_Checkpoints ==
    /\ pc = "append"
    /\ LET config == get_page_config(page, first_ad_url)
       IN  IF config.raised
           THEN pc' = "fault" /\ UNCHANGED <<ads, image_num, data_json>>
           ELSE /\ ads' = Append(ads, config.value)
                /\ data_json' = Append(data_json, [ads |-> ads'])
                /\ image_num' = DefaultImageNum
                /\ pc' = "download"
    /\ UNCHANGED <<page_no, catalog_page, first_ad_url, page, images, i, dirs,
                   files, requests, downloaded, last_fetch, arg, ret>>

\* mutant of line 115: the record is built but not appended
AppendConfig_NoAppend ==
    /\ pc = "append"
    /\ LET config == get_page_config(page, first_ad_url)
       IN  IF config.raised
           THEN pc' = "fault" /\ UNCHANGED image_num
           ELSE image_num' = DefaultImageNum /\ pc' = "download"
    /\ UNCHANGED <<page_no, ads, catalog_page, first_ad_url, page, images, i, dirs,
                   files, data_json, requests, downloaded, last_fetch, arg, ret>>

\* line 115: self.__data["ads"].append(self.__get_page_config(page, url));
\* then line 116 calls __download_images(page) with the default image_num
AppendConfig ==
    /\ pc = "append"
    /\ LET config == get_page_config(page, first_ad_url)
       IN  IF config.raised
           THEN pc' = "fault" /\ UNCHANGED <<ads, image_num>>
           ELSE /\ ads' = Append(ads, config.value)
                /\ image_num' = DefaultImageNum
                /\ pc' = "download"
    /\ UNCHANGED <<page_no, catalog_page, first_ad_url, page, images, i, dirs,
                   files, data_json, requests, downloaded, last_fetch, arg, ret>>

\* mutant of lines 90-93: the whole gallery is taken, whatever the cap
DownloadBegin_NoCap ==
    /\ pc = "download"
    /\ image_num' = Len(page.gallery)
    /\ images' = [k \in 1..Len(page.gallery) |-> page.gallery[k].data_src]
    /\ dirs' = dirs \cup {page_no}
    /\ i' = 0
    /\ pc' = "dl_loop"
    /\ UNCHANGED <<page_no, ads, catalog_page, first_ad_url, page, files,
                   data_json, requests, downloaded, last_fetch, arg, ret>>

\* lines 90-93: collect the gallery, clamp image_num, read the data-src
\* attributes, create the listing's directory
DownloadBegin ==
    /\ pc = "download"
    /\ LET image_tags == page.gallery
           n == IF Len(image_tags) >= image_num THEN image_num ELSE Len(image_tags)
       IN  /\ image_num' = n
           /\ images' = [k \in 1..n |-> image_tags[k].data_src]
    /\ dirs' = dirs \cup {page_no}
    /\ i' = 0
    /\ pc' = "dl_loop"
    /\ UNCHANGED <<page_no, ads, catalog_page, first_ad_url, page, files,
                   data_json, requests, downloaded, last_fetch, arg, ret>>

\* lines 94-97: one pass of the loop.  A missing data-src is None, which has
\* no split(); urlretrieve raises when the download fails.
DownloadImage ==
    /\ pc = "dl_loop"
    /\ i < image_num
    /\ LET image_url == images[i + 1]
       IN  IF image_url = None
           THEN pc' = "fault" /\ UNCHANGED <<i, files, requests>>
           ELSE \E ok \in BOOLEAN :
                  /\ requests' = Append(requests,
                          [ kind |-> "image", url |-> image_url.text,
                            currentpage |-> page_no,
                            outcome |-> IF ok THEN "200" ELSE "exception" ])
                  /\ IF ok
                     THEN /\ files' = files \cup
                                 {[ dir |-> page_no, image |-> i + 1,
                                    ext |-> LastSegment(image_url.text),
                                    from |-> image_url.text ]}
                          /\ i' = i + 1
                          /\ pc' = "dl_loop"
                     ELSE pc' = "fault" /\ UNCHANGED <<i, files>>
    /\ UNCHANGED <<page_no, ads, catalog_page, first_ad_url, page, image_num,
                   images, dirs, data_json, downloaded, last_fetch, arg, ret>>

\* line 94: range(image_num) is exhausted, __download_images returns
DownloadReturn ==
    /\ pc = "dl_loop"
    /\ i = image_num
    /\ downloaded' = downloaded \cup {page_no}
    /\ pc' = "dl_returned"
    /\ UNCHANGED <<page_no, ads, catalog_page, first_ad_url, page, image_num,
                   images, i, dirs, files, data_json, requests, last_fetch, arg,
                   ret>>

\* mutant of line 117: the counter advances by two
Increment_ByTwo ==
    /\ pc = "dl_returned"
    /\ page_no' = page_no + 2
    /\ pc' = "fetch_catalog"
    /\ UNCHANGED <<ads, catalog_page, first_ad_url, page, image_num, images, i,
                   dirs, files, data_json, requests, downloaded, last_fetch, arg,
                   ret>>

\* line 117: self.__page_no += 1
Increment ==
    /\ pc = "dl_returned"
    /\ page_no' = page_no + 1
    /\ pc' = "fetch_catalog"
    /\ UNCHANGED <<ads, catalog_page, first_ad_url, page, image_num, images, i,
                   dirs, files, data_json, requests, downloaded, last_fetch, arg,
                   ret>>

\* line 120: self.__save_json_data(self.__data, ".../data.json")
Save ==
    /\ pc = "save"
    /\ data_json' = Append(data_json, [ads |-> ads])
    /\ pc' = "done"
    /\ UNCHANGED <<page_no, ads, catalog_page, first_ad_url, page, image_num,
                   images, i, dirs, files, requests, downloaded, last_fetch, arg,
                   ret>>

Next ==
    \/ FetchCatalog
    \/ FindLink
    \/ FetchDetail
    \/ AppendConfig
    \/ DownloadBegin
    \/ DownloadImage
    \/ DownloadReturn
    \/ Increment
    \/ Save

Spec == Init /\ [][Next]_vars

----------------------------------------------------------------------------
(* SpecDl: __download_images called on its own, with any cap *)

InitDl ==
    /\ page_no = 1
    /\ ads = <<>>
    /\ catalog_page = None
    /\ first_ad_url = <<>>
    /\ arg \in [page : {FullPage(g) : g \in Galleries}, image_num : 0..MaxCap]
    /\ page = arg.page
    /\ image_num = arg.image_num
    /\ images = <<>>
    /\ i = 0
    /\ dirs = {}
    /\ files = {}
    /\ data_json = <<>>
    /\ requests = <<>>
    /\ downloaded = {}
    /\ last_fetch = None
    /\ ret = NoRet
    /\ pc = "download"

NextDl ==
    \/ DownloadBegin
    \/ DownloadImage
    \/ DownloadReturn

SpecDl == InitDl /\ [][NextDl]_vars

----------------------------------------------------------------------------
(* Claims about process() *)

IsCatalogRequest(r) == r.kind = "catalog"
CatalogRequests == SelectSeq(requests, IsCatalogRequest)

\* the last request was a catalog page answered 200 without a listing link
LastIsCatalogWithoutLink ==
    /\ requests # <<>>
    /\ requests[Len(requests)].kind = "catalog"
    /\ requests[Len(requests)].outcome = "nolink"
    /\ requests[Len(requests)].currentpage = page_no

\* C1: the first catalog page fetched without a listing link ends the loop:
\* it is the last request of the run, the loop is left only that way,
\* data.json is then written with the accumulated list, nothing more can
\* happen, and every earlier catalog page has exactly one record.
C1_StopsAtFirstPageWithoutLink ==
    /\ \A k \in 1..Len(requests) :
           (requests[k].kind = "catalog" /\ requests[k].outcome = "nolink")
               => (k = Len(requests) /\ pc \in {"find_link", "save", "done"})
    /\ pc \in {"save", "done"} => LastIsCatalogWithoutLink
    /\ pc = "done" =>
           /\ data_json = <<[ads |-> ads]>>
           /\ Len(ads) = Len(CatalogRequests) - 1
           /\ \A k \in 1..Len(ads) : CatalogRequests[k].outcome = "200"
           /\ ~ENABLED Next

\* C1 witness: a run that ended on its third catalog page, after two records.
C1_Witness ==
    /\ pc = "done"
    /\ Len(ads) = 2
    /\ Len(CatalogRequests) = 3
    /\ data_json # <<>>

\* C2: every record's id is its 1-based position in the list, and the
\* directories created and the files saved are named by the ids of records:
\* the directory being filled is that of the last record.
C2_IdIsPositionAndDirectory ==
    /\ \A k \in 1..Len(ads) : ads[k].id = k
    /\ dirs \subseteq {ads[k].id : k \in 1..Len(ads)}
    /\ \A f \in files : f.dir \in dirs
    /\ downloaded \subseteq dirs
    /\ pc \in {"dl_loop", "dl_returned"} =>
           /\ ads[Len(ads)].id = page_no
           /\ page_no \in dirs

\* C2 witness: the same listing URL visited twice gave two records, with ids
\* 1 and 2, and two directories, the second with a file in it.
C2_Witness ==
    /\ pc = "done"
    /\ Len(ads) = 2
    /\ ads[1].href = ads[2].href
    /\ dirs = {1, 2}
    /\ \E f \in files : f.dir = 2

\* C7: data.json is written at most once, only when the loop was left on a
\* catalog page without a link, and never in a run that ended in a fault.
C7_WrittenOnceNeverAfterFault ==
    /\ Len(data_json) <= 1
    /\ data_json # <<>> => (pc = "done" /\ LastIsCatalogWithoutLink)
    /\ pc = "fault" => data_json = <<>>

\* C7 witness: an image download failed after two records were accumulated,
\* and nothing was written.
C7_Witness ==
    /\ pc = "fault"
    /\ Len(ads) = 2
    /\ requests[Len(requests)].kind = "image"
    /\ requests[Len(requests)].outcome = "exception"
    /\ data_json = <<>>

\* C8 as stated: the fetcher never raises; it returns the document on 200
\* and "no document" in every other case, a network failure included.
C8_FetcherNeverFaults ==
    last_fetch # None =>
        /\ ~last_fetch.result.raised
        /\ IF last_fetch.response.tag = "Response"
              /\ last_fetch.response.status_code = 200
           THEN last_fetch.result = Return(last_fetch.response.body)
           ELSE last_fetch.result = Return(None)

\* C8 amended: the fetcher returns the document on 200 and "no document" on
\* any other status; when the GET itself fails it raises, so that the caller
\* does not reach its next statement.
C8_NoDocumentOnlyForNon200 ==
    last_fetch # None =>
        /\ (last_fetch.response.tag = "Response"
              /\ last_fetch.response.status_code = 200)
               => last_fetch.result = Return(last_fetch.response.body)
        /\ (last_fetch.response.tag = "Response"
              /\ last_fetch.response.status_code # 200)
               => last_fetch.result = Return(None)
        /\ last_fetch.response.tag = "Exception" => last_fetch.result.raised
        /\ (pc = "find_link" /\ last_fetch.response.tag = "Response"
              /\ last_fetch.response.status_code # 200) => catalog_page = None
        /\ (pc = "append" /\ last_fetch.response.tag = "Response"
              /\ last_fetch.response.status_code # 200) => page = None
        /\ last_fetch.response.tag = "Exception" => pc = "fault"

\* C8 witness: a detail page was answered with a status other than 200 and
\* the caller holds "no document".
C8_Witness ==
    /\ pc = "append"
    /\ last_fetch # None
    /\ last_fetch.response.tag = "Response"
    /\ last_fetch.response.status_code # 200
    /\ last_fetch.result = Return(None)
    /\ page = None

\* C9 as stated: a record is appended only after all of its images have
\* been downloaded: the list never holds a record whose download has not
\* completed.
C9_AppendedAfterDownload ==
    \A k \in 1..Len(ads) : ads[k].id \in downloaded

\* C9 amended: the record is appended before its images are downloaded and
\* the page number is incremented after: while the images of listing page_no
\* are downloaded, and at a fault of that download, the list ends with its
\* record; every earlier record's download has completed.
C9_AppendedBeforeDownload ==
    /\ \A k \in 1..Len(ads) : k < page_no => ads[k].id \in downloaded
    /\ pc \in {"download", "dl_loop"} =>
           (Len(ads) = page_no /\ page_no \notin downloaded)
    /\ pc = "dl_returned" => (Len(ads) = page_no /\ page_no \in downloaded)
    /\ pc \in {"fetch_catalog", "find_link", "fetch_detail", "append", "save",
                "done"} => (Len(ads) = page_no - 1 /\ page_no \notin downloaded)
    /\ pc = "fault" => Len(ads) \in {page_no - 1, page_no}

\* C9 witness: the second listing's image download failed, and its record
\* is in the list.
C9_Witness ==
    /\ pc = "fault"
    /\ page_no = 2
    /\ Len(ads) = 2
    /\ 2 \notin downloaded
    /\ requests[Len(requests)].kind = "image"

\* C10: the catalog pages requested are 1, 2, 3, ... in order, each once;
\* when a catalog page is about to be fetched its number is the number of
\* records plus one; the page number is one more than the number of listings
\* whose record was appended and whose image download returned.
C10_PagesInOrderOnce ==
    /\ \A k \in 1..Len(CatalogRequests) : CatalogRequests[k].currentpage = k
    /\ pc = "fetch_catalog" =>
           (page_no = Len(ads) + 1 /\ Len(CatalogRequests) = page_no - 1)
    /\ pc # "fetch_catalog" => Len(CatalogRequests) = page_no
    /\ page_no >= 1
    /\ downloaded = 1..(IF pc = "dl_returned" THEN page_no ELSE page_no - 1)
    /\ downloaded \subseteq {ads[k].id : k \in 1..Len(ads)}

\* C10 witness: the third catalog page has been requested, after two
\* records.
C10_Witness ==
    /\ pc = "find_link"
    /\ page_no = 3
    /\ Len(ads) = 2
    /\ Len(CatalogRequests) = 3

----------------------------------------------------------------------------
(* Claims about __download_images *)

\* min(c, g) for the call under check
Wanted == IF Len(arg.page.gallery) >= arg.image_num
          THEN arg.image_num
          ELSE Len(arg.page.gallery)

ImagesSaved == {f.image : f \in files}

\* C6 as stated: however the call ends, it has issued exactly min(c, g)
\* download requests and saved image_1 .. image_min(c, g).
C6_ExactlyMinRequests ==
    pc \in {"dl_returned", "fault"} =>
        (Len(requests) = Wanted /\ ImagesSaved = 1..Wanted)

\* C6 amended: the requests issued are, in order, for the first gallery
\* images, never more than min(c, g) of them; the files saved are image_1 ..
\* image_n of the listing's directory, each from the gallery image of its
\* position; a call that returns has issued exactly min(c, g) requests and
\* saved image_1 .. image_min(c, g); a call that faults has not saved them all.
C6_AtMostMinExactlyOnReturn ==
    /\ Len(requests) <= Wanted
    /\ \A k \in 1..Len(requests) :
           /\ requests[k].kind = "image"
           /\ arg.page.gallery[k].data_src = Tag(requests[k].url)
    /\ ImagesSaved = 1..i
    /\ \A f \in files :
           /\ f.dir = page_no
           /\ f.dir \in dirs
           /\ arg.page.gallery[f.image].data_src = Tag(f.from)
    /\ pc = "dl_returned" => (Len(requests) = Wanted /\ ImagesSaved = 1..Wanted)
    /\ pc = "fault" => Cardinality(ImagesSaved) < Wanted

\* C6 witness: a gallery larger than a cap of at least 2, and the call has
\* returned.
C6_Witness ==
    /\ pc = "dl_returned"
    /\ arg.image_num >= 2
    /\ Len(arg.page.gallery) > arg.image_num
    /\ Len(requests) = arg.image_num

=============================================================================
